---- MODULE Spec2Model ----
(***************************************************************************)
(* Model of ueberzug/process.py: the parser of /proc/<pid>/stat            *)
(* (get_info), the decoder of the packed tty_nr                            *)
(* (calculate_minor_device_number), the cached enumeration of the pty      *)
(* slave folders (get_pty_slave_folders) and the bounded walk up the       *)
(* process ancestry (get_pty_slave).                                       *)
(*                                                                         *)
(* Byte strings are sequences of one-character strings, so that the        *)
(* regular expression of get_info is matched character by character.       *)
(* A tty_nr handed to the decoder is a vector of TTY_NR_BITS bits, so that *)
(* the masks and the shift act on all 32 bits.                             *)
(***************************************************************************)
EXTENDS Integers, Sequences, FiniteSets, TLC

VARIABLES
    tty_bits,       \* decoder run: the tty_nr given to calculate_minor_device_number
    minor_out,      \* decoder run: its return value, -1 before the call
    stat_truth,     \* parser run: the fields the kernel wrote to the stat file
    stat_data,      \* parser run: the bytes of the stat file
    info_out,       \* parser run: outcome of get_info
    proc_stat,      \* pid -> /proc/<pid>/stat
    dev_rdev,       \* device path -> the node and its st_rdev
    drivers_file,   \* lines of /proc/tty/drivers
    folders_cache,  \* lru_cache of get_pty_slave_folders
    driver_reads,   \* number of times /proc/tty/drivers was opened
    first_folders,  \* return value of the first get_pty_slave_folders call
    last_folders,   \* return value of the latest get_pty_slave_folders call,
                    \* with the drivers file as it was at that call
    asked,          \* the pid of the last get_pty_slave(pid) call, -1 before
    outcome         \* its outcome and the pids it consulted

vars == <<tty_bits, minor_out, stat_truth, stat_data, info_out, proc_stat,
          dev_rdev, drivers_file, folders_cache, driver_reads, first_folders,
          last_folders, asked, outcome>>

decoderVars == <<tty_bits, minor_out>>

parserVars == <<stat_truth, stat_data, info_out>>

resolverVars == <<proc_stat, dev_rdev, drivers_file, folders_cache,
                  driver_reads, first_folders, last_folders, asked, outcome>>

\* a file that does not exist, and a file holding the given bytes
NoFile == [exists |-> FALSE]

File(data) == [exists |-> TRUE, data |-> data]

(***************************************************************************)
(* Bytes and decimal numbers                                               *)
(***************************************************************************)
Digits == <<"0", "1", "2", "3", "4", "5", "6", "7", "8", "9">>

DigitSet == {"0", "1", "2", "3", "4", "5", "6", "7", "8", "9"}

IsDigit(c) == c \in DigitSet

DigitVal(c) == (CHOOSE k \in 1..10 : Digits[k] = c) - 1

RECURSIVE Dec(_)
\* the decimal text of a non-negative integer, as the kernel prints it
Dec(n) == IF n < 10 THEN <<Digits[n + 1]>>
          ELSE Append(Dec(n \div 10), Digits[(n % 10) + 1])

SignedDec(n) == IF n < 0 THEN <<"-">> \o Dec(-n) ELSE Dec(n)

RECURSIVE DigitsToNat(_)
DigitsToNat(s) == IF s = <<>> THEN 0
                  ELSE 10 * DigitsToNat(SubSeq(s, 1, Len(s) - 1))
                       + DigitVal(s[Len(s)])

\* Python's int() on a byte string matched by [-+]?\d+
PyInt(s) == IF s[1] = "-" THEN 0 - DigitsToNat(Tail(s))
            ELSE IF s[1] = "+" THEN DigitsToNat(Tail(s))
            ELSE DigitsToNat(s)

(***************************************************************************)
(* get_info: the regular expression over the stat file                     *)
(***************************************************************************)
MAX_PROCESS_NAME_LENGTH == 15

NoMatch == [matched |-> FALSE]

\* '.' of the pattern: any byte but a newline (the pattern has no DOTALL)
Dot(c) == c # "\n"

RECURSIVE DigitsEnd(_, _)
\* the first index at or after i that does not hold a digit
DigitsEnd(data, i) ==
    IF i <= Len(data) /\ IsDigit(data[i]) THEN DigitsEnd(data, i + 1) ELSE i

\* [-+]?\d+ at index i: the index after the match, 0 when it does not match
IntEnd(data, i) ==
    LET s == IF i <= Len(data) /\ data[i] \in {"-", "+"} THEN i + 1 ELSE i
        e == DigitsEnd(data, s)
    IN  IF e > s THEN e ELSE 0

Lit(data, i, c) == i >= 1 /\ i <= Len(data) /\ data[i] = c

\* (?P<tty_nr>[-+]?\d+) has matched up to e4: the groups after comm
TtyNrGroup(data, st, p1, e1, e2, e3, e4) ==
    IF e4 = 0 THEN NoMatch
    ELSE [matched |-> TRUE,
          state |-> data[st],
          ppid |-> SubSeq(data, p1, e1 - 1),
          pgrp |-> SubSeq(data, e1 + 1, e2 - 1),
          session |-> SubSeq(data, e2 + 1, e3 - 1),
          tty_nr |-> SubSeq(data, e3 + 1, e4 - 1)]

\* '(?P<session>[-+]?\d+) ' has matched up to e3
SessionGroup(data, st, p1, e1, e2, e3) ==
    IF e3 = 0 \/ ~Lit(data, e3, " ") THEN NoMatch
    ELSE TtyNrGroup(data, st, p1, e1, e2, e3, IntEnd(data, e3 + 1))

\* '(?P<pgrp>[-+]?\d+) ' has matched up to e2
PgrpGroup(data, st, p1, e1, e2) ==
    IF e2 = 0 \/ ~Lit(data, e2, " ") THEN NoMatch
    ELSE SessionGroup(data, st, p1, e1, e2, IntEnd(data, e2 + 1))

\* '(?P<ppid>[-+]?\d+) ' has matched from p1 up to e1
PpidGroup(data, st, p1, e1) ==
    IF e1 = 0 \/ ~Lit(data, e1, " ") THEN NoMatch
    ELSE PgrpGroup(data, st, p1, e1, IntEnd(data, e1 + 1))

\* '\) (?P<state>.) (?P<ppid>..) (?P<pgrp>..) (?P<session>..) (?P<tty_nr>..)'
\* at index j: the groups, or NoMatch
AfterComm(data, j) ==
    IF /\ Lit(data, j, ")") /\ Lit(data, j + 1, " ")
       /\ j + 2 <= Len(data) /\ Dot(data[j + 2])
       /\ Lit(data, j + 3, " ")
    THEN PpidGroup(data, j + 2, j + 4, IntEnd(data, j + 4))
    ELSE NoMatch

RECURSIVE DotRun(_, _, _)
\* how many bytes '.{0,n}' can take at most from index i on
DotRun(data, i, n) ==
    IF n > 0 /\ i <= Len(data) /\ Dot(data[i])
    THEN 1 + DotRun(data, i + 1, n - 1)
    ELSE 0

\* the lengths of comm for which the whole pattern matches
CommLengths(data, cs) ==
    {len \in 0..DotRun(data, cs, MAX_PROCESS_NAME_LENGTH) :
        AfterComm(data, cs + len).matched}

Greatest(S) == CHOOSE x \in S : \A y \in S : y <= x

Least(S) == CHOOSE x \in S : \A y \in S : x <= y

\* the quantifier {0,15} is greedy: the longest comm that lets the rest match
GreedyPick(S) == Greatest(S)

\* the groupdict of a match whose pid ends before e0 and whose comm has
\* len bytes
GroupDict(data, e0, len, rest) ==
    [matched |-> TRUE,
     pid |-> SubSeq(data, 1, e0 - 1),
     comm |-> SubSeq(data, e0 + 2, e0 + 1 + len),
     state |-> rest.state,
     ppid |-> rest.ppid,
     pgrp |-> rest.pgrp,
     session |-> rest.session,
     tty_nr |-> rest.tty_nr]

CommOfLength(data, e0, len) ==
    GroupDict(data, e0, len, AfterComm(data, e0 + 2 + len))

CommGroup(data, e0, lens) ==
    IF lens = {} THEN NoMatch ELSE CommOfLength(data, e0, GreedyPick(lens))

\* '^(?P<pid>[-+]?\d+) \(' has matched up to e0
PidGroup(data, e0) ==
    IF e0 = 0 \/ ~Lit(data, e0, " ") \/ ~Lit(data, e0 + 1, "(") THEN NoMatch
    ELSE CommGroup(data, e0, CommLengths(data, e0 + 2))

\* re.search(pattern, data): the groupdict, or NoMatch when search gives None
StatSearch(data) == PidGroup(data, IntEnd(data, 1))

FileNotFoundError == "FileNotFoundError"
AttributeError == "AttributeError"

NoError == "NoError"

\* a parser that reports a record it cannot match like a missing file
MismatchAsMissing(file) ==
    IF ~file.exists THEN [raised |-> FileNotFoundError]
    ELSE LET m == StatSearch(file.data)
         IN  IF ~m.matched THEN [raised |-> FileNotFoundError]
             ELSE [raised |-> NoError, info |-> m]

\* '.groupdict()' on the result of re.search: AttributeError on None
GroupDictOf(m) ==
    IF ~m.matched THEN [raised |-> AttributeError]
    ELSE [raised |-> NoError, info |-> m]

\* get_info on a stat file: open() raises FileNotFoundError when the file
\* does not exist, and None.groupdict() raises AttributeError when the
\* pattern does not match
get_info(file) ==
    IF ~file.exists THEN [raised |-> FileNotFoundError]
    ELSE GroupDictOf(StatSearch(file.data))

(***************************************************************************)
(* calculate_minor_device_number                                           *)
(***************************************************************************)
TTY_NR_BITS == 32
FIRST_BITS == 8
SHIFTED_BITS == 12

BitIndex == 0..(TTY_NR_BITS - 1)

PowersOfTwo ==
    <<1, 2, 4, 8, 16, 32, 64, 128, 256, 512, 1024, 2048, 4096, 8192, 16384,
      32768, 65536, 131072, 262144, 524288, 1048576, 2097152, 4194304,
      8388608, 16777216, 33554432, 67108864, 134217728, 268435456,
      536870912, 1073741824>>

\* 2^k for 0 <= k <= 30
Pow2(k) == PowersOfTwo[k + 1]

\* the low TTY_NR_BITS bits of a Python int (two's complement when negative);
\* the model's integers stay below 2^31 in absolute value
IntToBits(n) ==
    [i \in BitIndex |->
        IF i = TTY_NR_BITS - 1 THEN (IF n < 0 THEN 1 ELSE 0)
        ELSE IF n >= 0 THEN (n \div Pow2(i)) % 2
        ELSE 1 - ((((0 - n) - 1) \div Pow2(i)) % 2)]

RECURSIVE BitsToIntFrom(_, _)
BitsToIntFrom(b, i) ==
    IF i >= TTY_NR_BITS THEN 0
    ELSE (IF b[i] = 1 THEN Pow2(i) ELSE 0) + BitsToIntFrom(b, i + 1)

\* the value of a bit vector
BitsToInt(b) == BitsToIntFrom(b, 0)

\* a & b
BitAnd(a, b) == [i \in BitIndex |-> a[i] * b[i]]

\* a >> n
ShiftRight(a, n) ==
    [i \in BitIndex |-> IF i + n < TTY_NR_BITS THEN a[i + n] ELSE 0]

\* 0xFF
FIRST_BITS_MASK == [i \in BitIndex |-> IF i < FIRST_BITS THEN 1 ELSE 0]

\* 0xFFF00000
SHIFTED_BITS_MASK ==
    [i \in BitIndex |-> IF i >= TTY_NR_BITS - SHIFTED_BITS THEN 1 ELSE 0]

\* 0xFFF80000: one bit too many in the mask
WideShiftedMask ==
    [i \in BitIndex |-> IF i >= TTY_NR_BITS - SHIFTED_BITS - 1 THEN 1 ELSE 0]

MinorWithWideMask(tty_nr) ==
    BitsToInt(BitAnd(tty_nr, FIRST_BITS_MASK))
    + BitsToInt(ShiftRight(BitAnd(tty_nr, WideShiftedMask),
                           TTY_NR_BITS - SHIFTED_BITS - FIRST_BITS))

\* the high bits shifted down by TTY_NR_BITS - SHIFTED_BITS
MinorShiftedTooFar(tty_nr) ==
    BitsToInt(BitAnd(tty_nr, FIRST_BITS_MASK))
    + BitsToInt(ShiftRight(BitAnd(tty_nr, SHIFTED_BITS_MASK),
                           TTY_NR_BITS - SHIFTED_BITS))

calculate_minor_device_number(tty_nr) ==
    BitsToInt(BitAnd(tty_nr, FIRST_BITS_MASK))
    + BitsToInt(ShiftRight(BitAnd(tty_nr, SHIFTED_BITS_MASK),
                           TTY_NR_BITS - SHIFTED_BITS - FIRST_BITS))

(***************************************************************************)
(* get_pty_slave_folders                                                   *)
(***************************************************************************)
PtySlaveName == "pty_slave"

RECURSIVE PtySlavePaths(_)
\* the loop over the lines of /proc/tty/drivers; a line is the groupdict of
\* the line pattern: the driver's name and its /dev path
PtySlavePaths(lines) ==
    IF lines = <<>> THEN <<>>
    ELSE (IF Head(lines).name = PtySlaveName THEN <<Head(lines).path>>
          ELSE <<>>) \o PtySlavePaths(Tail(lines))

NoCache == [filled |-> FALSE]

\* a call without functools.lru_cache: the file is read on every call
FoldersUncached(cache, file) ==
    [value |-> PtySlavePaths(file), cache |-> cache, opened |-> 1]

\* one call of the lru_cache'd get_pty_slave_folders(): the value returned,
\* the cache afterwards and the number of times the drivers file was opened
get_pty_slave_folders(cache, file) ==
    IF cache.filled
    THEN [value |-> cache.value, cache |-> cache, opened |-> 0]
    ELSE [value |-> PtySlavePaths(file),
          cache |-> [filled |-> TRUE, value |-> PtySlavePaths(file)],
          opened |-> 1]

(***************************************************************************)
(* get_pty_slave                                                           *)
(***************************************************************************)
\* a walk that stops at the parent
ShallowLimit == 2 - 1

\* a walk that goes on to the great-grandparent
DeepLimit == 2 + 1

\* 'if parent_search_depth == 2: return None'
PARENT_SEARCH_LIMIT == 2

\* open(f'/proc/{pid}/stat'): only the pids of the table have a file
ProcFile(pid) == IF pid \in DOMAIN proc_stat THEN proc_stat[pid] ELSE NoFile

\* os.stat(f'{folder}/{minor}'): a path is the pair of its folder and its
\* last component
os_stat(path) == IF path \in DOMAIN dev_rdev THEN dev_rdev[path] ELSE NoFile

DevicePath(folder, minor) == <<folder, minor>>

\* the comparison without the full identifier: the decoded minor numbers
SameMinor(tty_nr, node) ==
    /\ node.exists
    /\ calculate_minor_device_number(IntToBits(node.st_rdev))
         = calculate_minor_device_number(IntToBits(tty_nr))

\* 'tty_nr == os.stat(device_path).st_rdev' under 'except FileNotFoundError'
NodeMatches(tty_nr, node) == node.exists /\ node.st_rdev = tty_nr

\* a scan in which a missing node is not caught
ScanUncaught(folders, tty_nr, minor) ==
    LET hits == {i \in 1..Len(folders) :
                   NodeMatches(tty_nr, os_stat(DevicePath(folders[i], minor)))}
        gone == {i \in 1..Len(folders) :
                   ~os_stat(DevicePath(folders[i], minor)).exists}
        stop == Least(hits \cup gone)
    IN  IF hits \cup gone = {} THEN [raised |-> NoError, found |-> FALSE]
        ELSE IF stop \in gone THEN [raised |-> FileNotFoundError, found |-> FALSE]
        ELSE [raised |-> NoError, found |-> TRUE,
              path |-> DevicePath(folders[stop], minor)]

\* 'for folder in pty_slave_folders': the first folder whose node matches
ScanFolders(folders, tty_nr, minor) ==
    LET hits == {i \in 1..Len(folders) :
                   NodeMatches(tty_nr, os_stat(DevicePath(folders[i], minor)))}
    IN  IF hits = {} THEN [raised |-> NoError, found |-> FALSE]
        ELSE [raised |-> NoError, found |-> TRUE,
              path |-> DevicePath(folders[Least(hits)], minor)]

Raised(error, pid) == [kind |-> "raised", error |-> error, consulted |-> <<pid>>]

Returned(path, pid) == [kind |-> "path", path |-> path, consulted |-> <<pid>>]

ReturnedNone(pid) == [kind |-> "None", consulted |-> <<pid>>]

RECURSIVE EagerParent(_, _, _)
\* a walk that reads the parent's stat file before it scans the folders
EagerParent(pid, parent_search_depth, folders) ==
    LET got == get_info(ProcFile(pid))
    IN  IF got.raised # NoError THEN Raised(got.raised, pid)
        ELSE
        LET tty_nr == PyInt(got.info.tty_nr)
            ppid == PyInt(got.info.ppid)
            parent == get_info(ProcFile(ppid))
            minor_device_number ==
                calculate_minor_device_number(IntToBits(tty_nr))
            scan == ScanFolders(folders, tty_nr, minor_device_number)
        IN  IF parent.raised # NoError
            THEN [kind |-> "raised", error |-> parent.raised,
                  consulted |-> <<pid, ppid>>]
            ELSE IF scan.found THEN Returned(scan.path, pid)
            ELSE IF parent_search_depth = PARENT_SEARCH_LIMIT
            THEN ReturnedNone(pid)
            ELSE LET up == EagerParent(ppid, parent_search_depth + 1, folders)
                 IN  [up EXCEPT !.consulted = <<pid>> \o @]

RECURSIVE get_pty_slave(_, _, _)

\* the outcome of the call for the parent, with pid consulted before it
AfterParent(pid, up) == [up EXCEPT !.consulted = <<pid>> \o @]

\* the end of an invocation, after the loop over the folders
AfterScan(pid, parent_search_depth, folders, ppid, scan) ==
    IF scan.raised # NoError THEN Raised(scan.raised, pid)
    ELSE IF scan.found THEN Returned(scan.path, pid)
    ELSE IF parent_search_depth = PARENT_SEARCH_LIMIT THEN ReturnedNone(pid)
    ELSE AfterParent(pid, get_pty_slave(ppid, parent_search_depth + 1,
                                        folders))

\* an invocation from 'tty_nr = int(process_info['tty_nr'])' on
WithTtyNr(pid, parent_search_depth, folders, ppid, tty_nr) ==
    AfterScan(pid, parent_search_depth, folders, ppid,
              ScanFolders(folders, tty_nr,
                  calculate_minor_device_number(IntToBits(tty_nr))))

\* an invocation after 'process_info = get_info(pid)'
WithInfo(pid, parent_search_depth, folders, got) ==
    IF got.raised # NoError THEN Raised(got.raised, pid)
    ELSE WithTtyNr(pid, parent_search_depth, folders,
                   PyInt(got.info.ppid), PyInt(got.info.tty_nr))

\* get_pty_slave(pid, parent_search_depth) with the folders its calls of
\* get_pty_slave_folders() return: the outcome (a path, None or the
\* exception raised) and the pids whose stat file was opened, in order
get_pty_slave(pid, parent_search_depth, folders) ==
    WithInfo(pid, parent_search_depth, folders, get_info(ProcFile(pid)))

(***************************************************************************)
(* The decoder on its own                                                  *)
(***************************************************************************)
MaxFlipped == 2

\* the vector that is 'base' everywhere but at the positions of S
BitsWith(base, S) == [i \in BitIndex |-> IF i \in S THEN 1 - base ELSE base]

Range(f) == {f[x] : x \in DOMAIN f}

\* 0x00088801
SampleTtyNr == 8 * 65536 + 8 * 4096 + 8 * 256 + 1

\* all-zero and all-one identifiers with up to MaxFlipped bits flipped, and
\* the sample identifier
SampleTtyBits ==
    {BitsWith(base, Range(f)) :
        base \in {0, 1}, f \in [1..MaxFlipped -> BitIndex]}
    \cup {BitsWith(0, {}), BitsWith(1, {}), IntToBits(SampleTtyNr)}

NoInfo == [raised |-> "NotCalled"]

NoTruth == [pid |-> 0]

NoCall == [kind |-> "NotCalled", consulted |-> <<>>]

NeverCalled == [called |-> FALSE]

ParserIdle ==
    /\ stat_truth = NoTruth
    /\ stat_data = <<>>
    /\ info_out = NoInfo

DecoderIdle ==
    /\ tty_bits = IntToBits(0)
    /\ minor_out = -1

ResolverIdle ==
    /\ proc_stat = <<>>
    /\ dev_rdev = <<>>
    /\ drivers_file = <<>>
    /\ folders_cache = NoCache
    /\ driver_reads = 0
    /\ first_folders = NeverCalled
    /\ last_folders = NeverCalled
    /\ asked = -1
    /\ outcome = NoCall

DecodeInit ==
    /\ tty_bits \in SampleTtyBits
    /\ minor_out = -1
    /\ ParserIdle
    /\ ResolverIdle

\* a call of calculate_minor_device_number(tty_nr)
Decode ==
    /\ minor_out = -1
    /\ minor_out' = calculate_minor_device_number(tty_bits)
    /\ UNCHANGED <<tty_bits, parserVars, resolverVars>>

DecodeNext == Decode

DecodeSpec == DecodeInit /\ [][DecodeNext]_vars

RECURSIVE SumBits(_, _, _)
\* the sum of b[i] * 2^(i - drop) over the positions i of I
SumBits(b, I, drop) ==
    IF I = {} THEN 0
    ELSE LET i == CHOOSE x \in I : TRUE
         IN  b[i] * Pow2(i - drop) + SumBits(b, I \ {i}, drop)

FlipBit(b, k) == [b EXCEPT ![k] = 1 - @]

\* C3: for every 32-bit tty_nr the decoder returns
\* (id & 0xFF) + ((id & 0xFFF00000) >> 12), that is bits 0-7 at their place
\* plus bits 20-31 moved down by 12 places; the result is a natural number
\* and flipping any of the bits 8-19 of the input does not change it.
C3_DecodeFormula ==
    minor_out # -1 =>
        /\ minor_out = SumBits(tty_bits, 0..7, 0) + SumBits(tty_bits, 20..31, 12)
        /\ minor_out \in Nat
        /\ \A k \in 8..19 :
              calculate_minor_device_number(FlipBit(tty_bits, k)) = minor_out

C3_Witness ==
    /\ minor_out # -1
    /\ tty_bits[31] = 1
    /\ tty_bits[19] = 1
    /\ tty_bits[0] = 0

\* C4 as stated: decode(0x00088801) equals 0x01 + 0x88 = 137.
C4_Stated ==
    (tty_bits = IntToBits(SampleTtyNr) /\ minor_out # -1) => minor_out = 137

\* C4 amended: decode(0x00088801) equals 1, since the bits 8-19 that hold
\* 0x888 are masked away.
C4_DecodeSample ==
    (tty_bits = IntToBits(SampleTtyNr) /\ minor_out # -1) => minor_out = 1

C4_Witness == tty_bits = IntToBits(SampleTtyNr) /\ minor_out # -1

(***************************************************************************)
(* The parser on its own                                                   *)
(***************************************************************************)
MaxChunks == 3

\* pieces of command names: letters, the delimiters of the record, the
\* text that follows a command name in a record, a newline
CommChunks ==
    {<<"m", "y">>, <<"c", "m", "d">>, <<")">>, <<" ">>, <<"(">>, <<")", " ">>, <<"\n">>,
     <<")", " ", "S", " ", "1", " ", "4", "2", " ", "4", "2", " ", "7">>}

RECURSIVE Concat(_)
Concat(ss) == IF ss = <<>> THEN <<>> ELSE Head(ss) \o Concat(Tail(ss))

SampleComms ==
    UNION {{Concat(cs) : cs \in [1..n -> CommChunks]} : n \in 0..MaxChunks}

\* fields 8.. of a stat file (tpgid, flags, ...), or nothing after tty_nr
SampleTails == {<<>>, <<" ", "-", "1", " ", "4", "1", "9", "4", "3", "0", "4">>}

\* the bytes the kernel writes for the first seven fields of a stat file
StatBytes(t) ==
    SignedDec(t.pid) \o <<" ", "(">> \o t.comm \o <<")", " ", t.state, " ">>
    \o SignedDec(t.ppid) \o <<" ">> \o SignedDec(t.pgrp) \o <<" ">>
    \o SignedDec(t.session) \o <<" ">> \o SignedDec(t.tty_nr)

PTS0 == 136 * 256

PTS256 == 137 * 256

ParseInit ==
    /\ \E comm \in SampleComms, state \in {"S", "R"}, ppid \in {1},
          tty_nr \in {0, PTS0}, tail \in SampleTails :
          /\ stat_truth = [pid |-> 42, comm |-> comm, state |-> state,
                           ppid |-> ppid, pgrp |-> 42, session |-> 42,
                           tty_nr |-> tty_nr]
          /\ stat_data = StatBytes(stat_truth) \o tail
    /\ info_out = NoInfo
    /\ DecoderIdle
    /\ ResolverIdle

\* a call of get_info(pid) on the stat file
ReadStat ==
    /\ info_out = NoInfo
    /\ info_out' = get_info(File(stat_data))
    /\ UNCHANGED <<stat_truth, stat_data, decoderVars, resolverVars>>

ParseNext == ReadStat

ParseSpec == ParseInit /\ [][ParseNext]_vars

\* get_info returned exactly the fields the kernel wrote
ParsedAsWritten ==
    /\ info_out.raised = NoError
    /\ PyInt(info_out.info.pid) = stat_truth.pid
    /\ info_out.info.comm = stat_truth.comm
    /\ info_out.info.state = stat_truth.state
    /\ PyInt(info_out.info.ppid) = stat_truth.ppid
    /\ PyInt(info_out.info.pgrp) = stat_truth.pgrp
    /\ PyInt(info_out.info.session) = stat_truth.session
    /\ PyInt(info_out.info.tty_nr) = stat_truth.tty_nr

\* C7: for every stat record whose command name has at most 15 characters,
\* whatever characters the name holds, get_info returns the whole command
\* name and the state, ppid, pgrp, session and tty_nr of the record.
C7_ShortNamesParse ==
    (info_out.raised # "NotCalled"
     /\ Len(stat_truth.comm) <= MAX_PROCESS_NAME_LENGTH)
        => ParsedAsWritten

(***************************************************************************)
(* The resolver: get_pty_slave over a process table, a device filesystem   *)
(* and a drivers file                                                      *)
(***************************************************************************)
MaxPid == 3

\* the processes that may exist; pid 0 never has a stat file
Pids == 1..MaxPid

BashComm == <<"b", "a", "s", "h">>

\* a kernel worker's name, longer than MAX_PROCESS_NAME_LENGTH
WorkerComm ==
    <<"k", "w", "o", "r", "k", "e", "r", "/", "u", "1", "6", ":", "3", "-",
      "e", "v", "e", "n", "t", "s">>

\* what a process of the table looks like: a shell with a parent link (no
\* parent, the pid below, or the pid above with the last pid linked to the
\* first, so that chains in both directions and cycles occur) and with or
\* without a controlling terminal, or a kernel worker
ProcKinds ==
    [comm : {BashComm}, link : {"none", "below", "above"}, tty_nr : {0, PTS0}]
    \cup [comm : {WorkerComm}, link : {"none"}, tty_nr : {0}]

ParentOf(pid, link) ==
    IF link = "below" THEN pid - 1
    ELSE IF link = "above" THEN (pid % MaxPid) + 1
    ELSE 0

ProcStatFile(pid, kind) ==
    File(StatBytes([pid |-> pid, comm |-> kind.comm, state |-> "S",
                    ppid |-> ParentOf(pid, kind.link), pgrp |-> pid,
                    session |-> pid, tty_nr |-> kind.tty_nr]))

DevFolders == {"/dev/pts", "/dev/ttyp"}

Node(rdev) == [exists |-> TRUE, st_rdev |-> rdev]

\* the nodes named 0 of the device folders: absent, the pty of PTS0, or
\* (under /dev/ttyp) a device with the same minor number and another major
\* number
DevTrees ==
    {[path \in {DevicePath(d, 0) : d \in DevFolders} |->
         IF path[1] = "/dev/pts" THEN pts ELSE ttyp] :
        pts \in {NoFile, Node(PTS0)},
        ttyp \in {NoFile, Node(PTS0), Node(PTS256)}}

Line(name, path) == [name |-> name, path |-> path]

\* a table with one pty slave driver, and one with the legacy pty slave
\* driver registered before it
DriverFiles ==
    {<<Line("serial", "/dev/ttyS"), Line("pty_slave", "/dev/pts"),
       Line("pty_master", "/dev/ptm")>>,
     <<Line("pty_slave", "/dev/ttyp"), Line("pty_slave", "/dev/pts")>>}

\* and a table without a pty slave driver
ChangedDriverFiles ==
    DriverFiles \cup {<<Line("serial", "/dev/ttyS")>>}

\* the device nodes lie in folders that the drivers file registers for the
\* pty slave driver (other nodes are never looked at)
NodesUnderDrivers ==
    \A path \in DOMAIN dev_rdev :
        dev_rdev[path].exists =>
            \E k \in 1..Len(drivers_file) :
                /\ drivers_file[k].name = PtySlaveName
                /\ drivers_file[k].path = path[1]

Init ==
    /\ \E kind \in [Pids -> ProcKinds] :
          proc_stat = [pid \in Pids |-> ProcStatFile(pid, kind[pid])]
    /\ drivers_file \in DriverFiles
    /\ dev_rdev \in DevTrees
    /\ NodesUnderDrivers
    /\ folders_cache = NoCache
    /\ driver_reads = 0
    /\ first_folders = NeverCalled
    /\ last_folders = NeverCalled
    /\ asked = -1
    /\ outcome = NoCall
    /\ DecoderIdle
    /\ ParserIdle

RECURSIVE FoldersCalls(_, _, _)

JoinedCalls(one, more) ==
    [first |-> one.value, last |-> more.last, cache |-> more.cache,
     opened |-> one.opened + more.opened]

CallsAfter(file, n, one) ==
    IF n <= 1
    THEN [first |-> one.value, last |-> one.value, cache |-> one.cache,
          opened |-> one.opened]
    ELSE JoinedCalls(one, FoldersCalls(one.cache, file, n - 1))

\* n calls of get_pty_slave_folders() in a row, n >= 1: the value of the
\* first and of the last call, the cache afterwards, the number of reads
FoldersCalls(cache, file, n) ==
    CallsAfter(file, n, get_pty_slave_folders(cache, file))

\* the cache and the record of the calls after these calls
FoldersCalled(done) ==
    /\ folders_cache' = done.cache
    /\ driver_reads' = driver_reads + done.opened
    /\ first_folders' = IF first_folders.called THEN first_folders
                        ELSE [called |-> TRUE, value |-> done.first]
    /\ last_folders' = [called |-> TRUE, value |-> done.last,
                        file |-> drivers_file]

\* the state after get_pty_slave(pid) ended with result
Resolved(pid, result) ==
    /\ FoldersCalled(FoldersCalls(folders_cache, drivers_file,
                                  Len(result.consulted)))
    /\ asked' = pid
    /\ outcome' = result
    /\ UNCHANGED <<proc_stat, dev_rdev, drivers_file, decoderVars,
                   parserVars>>

\* a call get_pty_slave(pid): every invocation of the recursion calls
\* get_pty_slave_folders() before it opens the stat file of its pid
Resolve(pid) ==
    Resolved(pid,
        get_pty_slave(pid, 0,
            get_pty_slave_folders(folders_cache, drivers_file).value))

\* a call get_pty_slave_folders() from outside get_pty_slave
ListFolders ==
    /\ FoldersCalled(FoldersCalls(folders_cache, drivers_file, 1))
    /\ UNCHANGED <<proc_stat, dev_rdev, drivers_file, asked, outcome,
                   decoderVars, parserVars>>

\* the kernel's driver table changes
WriteDrivers(file) ==
    /\ file # drivers_file
    /\ drivers_file' = file
    /\ UNCHANGED <<proc_stat, dev_rdev, folders_cache, driver_reads,
                   first_folders, last_folders, asked, outcome, decoderVars,
                   parserVars>>

\* the first call of get_pty_slave in a run of the program
FirstResolve(pid) == asked = -1 /\ Resolve(pid)

Next == \E pid \in 0..MaxPid : FirstResolve(pid)

Spec == Init /\ [][Next]_vars

(***************************************************************************)
(* What the process table and the device folders hold, as the claims       *)
(* about get_pty_slave speak of them                                       *)
(***************************************************************************)
\* the folders the call worked with
FoldersUsed == folders_cache.value

\* the indexes of the folders that hold a node named by the decoded minor
\* number of tty_nr whose st_rdev is tty_nr
MatchingFolders(tty_nr) ==
    LET minor == calculate_minor_device_number(IntToBits(tty_nr))
    IN  {i \in 1..Len(FoldersUsed) :
            LET node == os_stat(DevicePath(FoldersUsed[i], minor))
            IN  node.exists /\ node.st_rdev = tty_nr}

\* what the table says of pid: whether its stat file exists, whether it
\* matches the pattern, its ppid and tty_nr, and whether a pty slave folder
\* holds a matching node (its terminal)
Facts(pid) ==
    LET got == get_info(ProcFile(pid))
    IN  IF got.raised # NoError
        THEN [exists |-> ProcFile(pid).exists, readable |-> FALSE,
              ppid |-> 0, tty_nr |-> 0, terminal |-> FALSE]
        ELSE [exists |-> TRUE, readable |-> TRUE,
              ppid |-> PyInt(got.info.ppid),
              tty_nr |-> PyInt(got.info.tty_nr),
              terminal |-> MatchingFolders(PyInt(got.info.tty_nr)) # {}]

Called == asked # -1

LastConsulted == outcome.consulted[Len(outcome.consulted)]

C6_SameTerminalSamePath ==
    Called =>
        LET self == Facts(asked)
        IN  self.terminal =>
              \A q \in Pids \ {asked} :
                  LET there == Facts(q)
                      other == get_pty_slave(q, 0, FoldersUsed)
                  IN  (there.readable /\ there.tty_nr = self.tty_nr) =>
                          /\ outcome.kind = "path"
                          /\ other.kind = "path"
                          /\ other.path = outcome.path

\* two processes on the same terminal, one with a parent and one without
C6_Witness ==
    /\ Called
    /\ outcome.kind = "path"
    /\ Facts(asked).terminal
    /\ \E q \in Pids \ {asked} :
          /\ Facts(q).readable
          /\ Facts(q).tty_nr = Facts(asked).tty_nr
          /\ Facts(q).ppid # Facts(asked).ppid
          /\ ~Facts(Facts(q).ppid).exists

\* C8: when the stat file of a process that get_pty_slave consulted exists
\* and does not match the pattern, that process is the last one consulted
\* and the call ends with AttributeError, which is neither
\* FileNotFoundError nor a return of None.
C8_MalformedRecord ==
    Called =>
        \A i \in 1..Len(outcome.consulted) :
            LET there == Facts(outcome.consulted[i])
            IN  (there.exists /\ ~there.readable) =>
                    /\ i = Len(outcome.consulted)
                    /\ outcome.kind = "raised"
                    /\ outcome.error = AttributeError
                    /\ outcome.error # FileNotFoundError

\* the grandparent's record is the malformed one
C8_Witness ==
    /\ Called
    /\ Len(outcome.consulted) = 3
    /\ Facts(LastConsulted).exists
    /\ ~Facts(LastConsulted).readable
    /\ outcome.kind = "raised"

\* C9: a returned path is folder/minor for the first folder, in the order
\* of the folder list, whose node exists with st_rdev equal to the whole
\* tty_nr of the record; the folders before it hold no such node (the node
\* is missing or has another st_rdev), and a missing node raises nothing.
C9_FirstFullMatch ==
    (Called /\ outcome.kind = "path") =>
        LET tty_nr == Facts(LastConsulted).tty_nr
            minor == calculate_minor_device_number(IntToBits(tty_nr))
        IN  \E i \in 1..Len(FoldersUsed) :
              /\ outcome.path = DevicePath(FoldersUsed[i], minor)
              /\ os_stat(outcome.path).exists
              /\ os_stat(outcome.path).st_rdev = tty_nr
              /\ \A j \in 1..(i - 1) :
                    LET before == os_stat(DevicePath(FoldersUsed[j], minor))
                    IN  ~before.exists \/ before.st_rdev # tty_nr

\* the first folder holds a node with the same minor number and another
\* st_rdev, the second folder holds the match
C9_Witness ==
    /\ Called
    /\ outcome.kind = "path"
    /\ Len(FoldersUsed) = 2
    /\ outcome.path = DevicePath(FoldersUsed[2], 0)
    /\ os_stat(DevicePath(FoldersUsed[1], 0)).exists
    /\ os_stat(DevicePath(FoldersUsed[1], 0)).st_rdev = PTS256

\* C10: the processes consulted are pid, its parent, its grandparent, in
\* that order and never more than these three; the walk moves on from a
\* process exactly when its record was read, no folder matched and it is
\* not the grandparent; a returned path is the match of the last process
\* consulted, so of the nearest one with a match; and the call ends for
\* every process table, also one whose parent links form a cycle.
C10_BoundedWalk ==
    Called =>
        LET c == outcome.consulted
            n == Len(outcome.consulted)
            last == Facts(LastConsulted)
        IN  /\ n >= 1 /\ n <= 3
            /\ c[1] = asked
            /\ \A i \in 2..n :
                  LET before == Facts(c[i - 1])
                  IN  /\ before.readable
                      /\ ~before.terminal
                      /\ c[i] = before.ppid
            /\ outcome.kind \in {"path", "None", "raised"}
            /\ outcome.kind = "path" =>
                  /\ last.terminal
                  /\ outcome.path[1]
                       = FoldersUsed[Least(MatchingFolders(last.tty_nr))]
            /\ outcome.kind = "None" =>
                  (n = 3 /\ last.readable
                   /\ ~last.terminal)
            /\ outcome.kind = "raised" => ~last.readable

\* the parent links form a cycle of two processes and the walk ends after
\* it came back to the pid it started from
C10_Witness ==
    /\ Called
    /\ Len(outcome.consulted) = 3
    /\ outcome.consulted[3] = asked
    /\ outcome.consulted[2] # asked
    /\ outcome.kind = "None"

(***************************************************************************)
(* Repeated calls while the drivers file changes                           *)
(***************************************************************************)
CacheInit ==
    /\ \E tty \in [Pids -> {0, PTS0}] :
          proc_stat = [pid \in Pids |->
              ProcStatFile(pid, [comm |-> BashComm, link |-> "below",
                                 tty_nr |-> tty[pid]])]
    /\ dev_rdev = [path \in {DevicePath(d, 0) : d \in DevFolders} |-> Node(PTS0)]
    /\ drivers_file \in DriverFiles
    /\ folders_cache = NoCache
    /\ driver_reads = 0
    /\ first_folders = NeverCalled
    /\ last_folders = NeverCalled
    /\ asked = -1
    /\ outcome = NoCall
    /\ DecoderIdle
    /\ ParserIdle

CacheNext ==
    \/ \E pid \in 0..MaxPid : Resolve(pid)
    \/ ListFolders
    \/ \E file \in ChangedDriverFiles : WriteDrivers(file)

CacheSpec == CacheInit /\ [][CacheNext]_vars

\* C5: whatever the drivers file holds by now, every call of
\* get_pty_slave_folders returned what the first call returned, and the
\* drivers file was opened at most once.
C5_CacheHonoured ==
    /\ driver_reads <= 1
    /\ last_folders.called =>
          /\ first_folders.called
          /\ last_folders.value = first_folders.value

\* a call made after the file changed returned the value of the first read
C5_Witness ==
    /\ last_folders.called
    /\ driver_reads = 1
    /\ last_folders.value # PtySlavePaths(last_folders.file)
    /\ last_folders.value = first_folders.value

====
